---- MODULE Spec2Model ----
(***************************************************************************)
(* Balance summary screen of the exchange application.                     *)
(*                                                                         *)
(* Two variants of the screen exist in the repository:                     *)
(*   src/app/(tabs)/balance.tsx  shows the total in DZD only               *)
(*                               (totalNetBalanceDZD);                     *)
(*   src/unnamed/part_000        also converts the total into the display  *)
(*                               currency (averageRates, totalNetBalance). *)
(* Both share useState, the balances memo, toggleDisplayCurrency,          *)
(* renderBalanceItem and the three-way conditional of the returned tree.   *)
(* The model keeps the memoised values of both variants side by side.      *)
(*                                                                         *)
(* Numbers: amounts and rates are integers; the mean rate and the          *)
(* converted total are exact fractions [num, den] (IEEE rounding of the    *)
(* division is not modelled).                                              *)
(***************************************************************************)
EXTENDS Integers, Sequences, FiniteSets, TLC

\* ---------------------------------------------------------------- bounds
\* longest transaction history explored
MaxLen == 2

\* ------------------------------------------------------------ input data
Targets == {"USD", "EUR"}

Types == {"buy", "sell"}

\* source currency codes seen in the history; "XXX" has no reference entry
Codes == {"USD", "XXX"}

\* static reference table: code -> display metadata
CURRENCIES ==
  [c \in {"USD"} |->
     [defined |-> TRUE, name |-> <<"name", c>>, flagUrl |-> <<"flag", c>>]]

\* the value of Array.prototype.find when nothing matches
Undefined == [defined |-> FALSE, name |-> <<>>, flagUrl |-> <<>>]

\* amounts are > 0; a rate of 0 is what the code's "|| 0" and "rate ?" guard
Amounts == {1, 2}

Rates == {0, 1, 2}

Transaction ==
  [currencyCode : Codes, targetCurrency : Targets, type : Types,
   amount : Amounts, rate : Rates]

TransactionLists == UNION {[1..n -> Transaction] : n \in 0..MaxLen}

\* formatCurrency(amount, currencyCode) -> display string
formatCurrency(amount, currencyCode) == <<"fmt", amount, currencyCode>>

\* ------------------------------------------------------------- fractions
Zero == [num |-> 0, den |-> 1]

\* ---------------------------------------------------------- averageRates
RECURSIVE ratesForAll(_, _, _)
ratesForAll(txs, target, n) ==
  IF n = 0 THEN <<>>
  ELSE Append(ratesForAll(txs, target, n - 1), txs[n].rate)

RECURSIVE ratesFor(_, _, _)
\* rates.EUR / rates.USD after the first n iterations of the forEach
ratesFor(txs, target, n) ==
  IF n = 0 THEN <<>>
  ELSE IF txs[n].targetCurrency = target
       THEN Append(ratesFor(txs, target, n - 1), txs[n].rate)
       ELSE ratesFor(txs, target, n - 1)

RECURSIVE reduceAdd(_, _)
\* rates.reduce((a, b) => a + b) on the first n elements
reduceAdd(rs, n) == IF n = 0 THEN 0 ELSE reduceAdd(rs, n - 1) + rs[n]

meanOf(rs) ==
  IF Len(rs) > 0 THEN [num |-> reduceAdd(rs, Len(rs)), den |-> Len(rs)]
  ELSE Zero

averageRatesOf(txs) ==
  [target \in Targets |-> meanOf(ratesFor(txs, target, Len(txs)))]

\* -------------------------------------------------------------- balances
\* position of key in the insertion-ordered Map, 0 when absent
mapIndex(map, key) ==
  IF \E i \in 1..Len(map) : map[i].key = key
  THEN CHOOSE i \in 1..Len(map) : map[i].key = key
  ELSE 0

mapGet(map, key) ==
  IF mapIndex(map, key) = 0 THEN Undefined ELSE map[mapIndex(map, key)].value

mapSet_prepend(map, key, value) ==
  IF mapIndex(map, key) = 0
  THEN <<[key |-> key, value |-> value]>> \o map
  ELSE [map EXCEPT ![mapIndex(map, key)].value = value]

\* Map.set: a new key goes last, an existing key keeps its position
mapSet(map, key, value) ==
  IF mapIndex(map, key) = 0
  THEN Append(map, [key |-> key, value |-> value])
  ELSE [map EXCEPT ![mapIndex(map, key)].value = value]

currenciesFind(key) ==
  IF key \in DOMAIN CURRENCIES THEN CURRENCIES[key] ELSE Undefined

\* one iteration of the forEach body for a transaction that passed the test
accumulate(map, transaction) ==
  LET key == transaction.currencyCode
      found == mapIndex(map, key) # 0
      currentBalance ==
        IF found THEN mapGet(map, key)
        ELSE [buys |-> 0, sells |-> 0,
              currency |-> currenciesFind(key),
              targetCurrency |-> transaction.targetCurrency]
      updated ==
        IF transaction.type = "buy"
        THEN [currentBalance EXCEPT !.buys = @ + transaction.amount]
        ELSE [currentBalance EXCEPT !.sells = @ + transaction.amount]
  IN mapSet(map, key, updated)

RECURSIVE balanceMapOf_unfiltered(_, _, _)
balanceMapOf_unfiltered(txs, dc, n) ==
  IF n = 0 THEN <<>>
  ELSE accumulate(balanceMapOf_unfiltered(txs, dc, n - 1), txs[n])

RECURSIVE balanceMapOf(_, _, _)
\* balanceMap after the first n iterations of the forEach
balanceMapOf(txs, dc, n) ==
  IF n = 0 THEN <<>>
  ELSE IF txs[n].targetCurrency = dc
       THEN accumulate(balanceMapOf(txs, dc, n - 1), txs[n])
       ELSE balanceMapOf(txs, dc, n - 1)

findTransaction_last(txs, code, target) ==
  LET hit(i) == txs[i].currencyCode = code /\ txs[i].targetCurrency = target
  IN IF \E i \in 1..Len(txs) : hit(i)
     THEN CHOOSE i \in 1..Len(txs) : hit(i) /\ \A j \in (i+1)..Len(txs) : ~hit(j)
     ELSE 0

\* transactions.find(t => t.currencyCode === code &&
\*                        t.targetCurrency === target): index, 0 if none
findTransaction(txs, code, target) ==
  LET hit(i) == txs[i].currencyCode = code /\ txs[i].targetCurrency = target
  IN IF \E i \in 1..Len(txs) : hit(i)
     THEN CHOOSE i \in 1..Len(txs) : hit(i) /\ \A j \in 1..(i-1) : ~hit(j)
     ELSE 0

\* (find(...)?.rate || 0): fallback tells whether the || 0 branch was taken
rateOrZero(txs, code, target) ==
  LET idx == findTransaction(txs, code, target)
  IN IF idx = 0 THEN [value |-> 0, fallback |-> TRUE]
     ELSE IF txs[idx].rate = 0 THEN [value |-> 0, fallback |-> TRUE]
     ELSE [value |-> txs[idx].rate, fallback |-> FALSE]

netTotalOf_sum(txs, code, data) ==
  (data.buys + data.sells) * rateOrZero(txs, code, data.targetCurrency).value

netTotalOf(txs, code, data) ==
  (data.buys - data.sells) * rateOrZero(txs, code, data.targetCurrency).value

balancesOf(txs, dc) ==
  LET map == balanceMapOf(txs, dc, Len(txs))
  IN [i \in 1..Len(map) |->
       [code |-> map[i].key,
        buys |-> map[i].value.buys,
        sells |-> map[i].value.sells,
        currency |-> map[i].value.currency,
        targetCurrency |-> map[i].value.targetCurrency,
        netTotal |-> netTotalOf(txs, map[i].key, map[i].value)]]

\* ----------------------------------------------------------------- totals
RECURSIVE reduceTotal(_, _)
\* transactions.reduce((total, t) => total + signed(t) * t.rate, 0)
reduceTotal(txs, n) ==
  IF n = 0 THEN 0
  ELSE LET amount == IF txs[n].type = "buy" THEN txs[n].amount
                     ELSE 0 - txs[n].amount
       IN reduceTotal(txs, n - 1) + (amount * txs[n].rate)

RECURSIVE reduceTotalIn(_, _, _)
reduceTotalIn(txs, dc, n) ==
  IF n = 0 THEN 0
  ELSE LET amount == IF txs[n].type = "buy" THEN txs[n].amount
                     ELSE 0 - txs[n].amount
       IN reduceTotalIn(txs, dc, n - 1)
          + (IF txs[n].targetCurrency = dc THEN amount * txs[n].rate ELSE 0)

totalNetBalanceDZDOf(txs) == reduceTotal(txs, Len(txs))

totalNetBalanceOf_filtered(txs, dc, avg) ==
  LET totalDZD == reduceTotalIn(txs, dc, Len(txs))
      rate == avg[dc]
  IN ("DZD" :> totalDZD) @@
     (dc :> IF rate.num # 0
            THEN [num |-> totalDZD * rate.den, den |-> rate.num]
            ELSE Zero)

\* { DZD: totalDZD, [displayCurrency]: rate ? totalDZD / rate : 0 }
totalNetBalanceOf(txs, dc, avg) ==
  LET totalDZD == reduceTotal(txs, Len(txs))
      rate == avg[dc]
  IN ("DZD" :> totalDZD) @@
     (dc :> IF rate.num # 0
            THEN [num |-> totalDZD * rate.den, den |-> rate.num]
            ELSE Zero)

\* ------------------------------------------------------------- rendering
styleOf_nonNegative(value) == IF value >= 0 THEN "positive" ELSE "negative"

\* value > 0 ? styles.positive : styles.negative
styleOf(value) == IF value > 0 THEN "positive" ELSE "negative"

NoCard ==
  [threw |-> TRUE, flag |-> <<>>, name |-> <<>>, code |-> "",
   buys |-> <<>>, sells |-> <<>>, netStyle |-> "", net |-> <<>>]

\* renderItem for one row; item.currency.flagUrl on an undefined currency
\* is a TypeError raised before any other part of the card is built
renderBalanceItem(item, dc) ==
  IF item.currency = Undefined THEN NoCard
  ELSE [threw |-> FALSE,
        flag |-> item.currency.flagUrl,
        name |-> item.currency.name,
        code |-> item.code,
        buys |-> formatCurrency(item.buys, dc),
        sells |-> formatCurrency(item.sells, dc),
        netStyle |-> styleOf(item.netTotal),
        net |-> formatCurrency(item.buys - item.sells, dc)]

Hidden == [shown |-> FALSE, text |-> <<>>, style |-> ""]

Shown(text, style) == [shown |-> TRUE, text |-> text, style |-> style]

modeOf_byBalances(txs, bal) ==
  IF Len(bal) > 0 THEN "list" ELSE "empty"

\* the two nested conditionals of the returned tree
modeOf(txs, bal) ==
  IF Len(txs) > 0
  THEN IF Len(bal) > 0 THEN "list" ELSE "noTransactions"
  ELSE "empty"

\* the element tree BalanceScreen returns, with the cards its FlatList asks
\* renderBalanceItem for
BalanceScreen(txs, dc, avg, bal, totalA, totalB) ==
  LET mode == modeOf(txs, bal)
      body == mode # "empty"
  IN [emptyState |-> mode = "empty",
      currencySelector |->
        IF body THEN Shown(dc, "") ELSE Hidden,
      \* balance.tsx: "Total Net Balance (DZD):"
      totalBalanceValueDZD |->
        IF body THEN Shown(formatCurrency(totalA, "DZD"), styleOf(totalA))
        ELSE Hidden,
      \* part_000: "Total Net Balance:" primary and secondary text
      totalBalanceValue |->
        IF body
        THEN Shown(formatCurrency(totalB["DZD"], "DZD"), styleOf(totalB["DZD"]))
        ELSE Hidden,
      totalBalanceValueSecondary |->
        IF body /\ avg[dc].num > 0
        THEN Shown(formatCurrency(totalB[dc], dc), styleOf(totalB[dc].num))
        ELSE Hidden,
      flatList |-> mode = "list",
      cards |->
        IF mode = "list"
        THEN [i \in 1..Len(bal) |-> renderBalanceItem(bal[i], dc)]
        ELSE <<>>,
      noTransactionsText |->
        IF mode = "noTransactions"
        THEN Shown(<<"No transactions in", dc>>, "")
        ELSE Hidden]

\* ------------------------------------------------------------------ state
VARIABLES
  transactions,        \* useTransactionHistory().transactions
  displayCurrency,     \* useState<'USD' | 'EUR'>
  averageRates,        \* memo on [transactions]                  (part_000)
  balances,            \* memo on [transactions, displayCurrency]
  totalNetBalanceDZD,  \* memo on [transactions]               (balance.tsx)
  totalNetBalance,     \* memo on [transactions, displayCurrency, averageRates]
  screen               \* what the last render returned

vars ==
  <<transactions, displayCurrency, averageRates, balances,
    totalNetBalanceDZD, totalNetBalance, screen>>

InitialDisplayCurrency_USD == "USD"

InitialDisplayCurrency == "EUR"

\* first render
Init ==
  /\ transactions \in TransactionLists
  /\ displayCurrency = InitialDisplayCurrency
  /\ averageRates = averageRatesOf(transactions)
  /\ balances = balancesOf(transactions, displayCurrency)
  /\ totalNetBalanceDZD = totalNetBalanceDZDOf(transactions)
  /\ totalNetBalance =
       totalNetBalanceOf(transactions, displayCurrency, averageRates)
  /\ screen = BalanceScreen(transactions, displayCurrency, averageRates,
                            balances, totalNetBalanceDZD, totalNetBalance)

flip(current) == IF current = "USD" THEN "EUR" ELSE "USD"

\* onPress of the currency selector (only rendered with transactions), then
\* the re-render: memos whose dependencies changed are recomputed
toggleDisplayCurrency ==
  /\ screen.currencySelector.shown
  /\ displayCurrency' = flip(displayCurrency)
  /\ UNCHANGED <<transactions, averageRates, totalNetBalanceDZD>>
  /\ balances' = balancesOf(transactions, displayCurrency')
  /\ totalNetBalance' =
       totalNetBalanceOf(transactions, displayCurrency', averageRates)
  /\ screen' = BalanceScreen(transactions, displayCurrency', averageRates,
                             balances', totalNetBalanceDZD, totalNetBalance')

Next == toggleDisplayCurrency

Spec == Init /\ [][Next]_vars

\* ------------------------------------------------- reference definitions
\* the claims below restate what the memos must be, over index sets of the
\* history instead of the code's folds
RECURSIVE SumOver(_, _)
SumOver(S, f) ==
  IF S = {} THEN 0
  ELSE LET i == CHOOSE x \in S : TRUE IN f[i] + SumOver(S \ {i}, f)

Indices == 1..Len(transactions)

AmountAt == [i \in Indices |-> transactions[i].amount]

RateAt == [i \in Indices |-> transactions[i].rate]

SignedValueAt ==
  [i \in Indices |->
     IF transactions[i].type = "buy"
     THEN transactions[i].amount * transactions[i].rate
     ELSE 0 - (transactions[i].amount * transactions[i].rate)]

InTarget(dc) == {i \in Indices : transactions[i].targetCurrency = dc}

Pair(c, dc) ==
  {i \in InTarget(dc) : transactions[i].currencyCode = c}

FirstOf(S) == CHOOSE i \in S : \A j \in S : i <= j

SignedTotal == SumOver(Indices, SignedValueAt)

AllRatesPositive == \A i \in Indices : transactions[i].rate > 0

RowsOf(c) == {r \in 1..Len(balances) : balances[r].code = c}

\* ---------------------------------------------------------------- claims

\* C1: the balance rows are built only from the transactions whose
\* targetCurrency is the display currency: row c's buys is the sum of the
\* amounts of the buys of code c in the display currency, its sells the sum
\* of the amounts of the others of code c in the display currency; a
\* transaction with another targetCurrency contributes to no row and each
\* matching transaction is counted once.
C1_RowsOnlyFromDisplayCurrency ==
  \A c \in Codes :
    LET buyIdx == {i \in Pair(c, displayCurrency) : transactions[i].type = "buy"}
        sellIdx == Pair(c, displayCurrency) \ buyIdx
    IN /\ Pair(c, displayCurrency) = {} => RowsOf(c) = {}
       /\ Pair(c, displayCurrency) # {} =>
            /\ Cardinality(RowsOf(c)) = 1
            /\ \A r \in RowsOf(c) :
                 /\ balances[r].buys = SumOver(buyIdx, AmountAt)
                 /\ balances[r].sells = SumOver(sellIdx, AmountAt)
                 /\ balances[r].targetCurrency = displayCurrency

\* a row exists while a transaction of the same code in the other target
\* currency is in the history
C1_Witness ==
  /\ Len(balances) = 1
  /\ \E i, j \in Indices :
       /\ transactions[i].targetCurrency = displayCurrency
       /\ transactions[j].targetCurrency # displayCurrency
       /\ transactions[i].currencyCode = transactions[j].currencyCode

\* C2: the DZD total is the sum over all transactions, whatever their
\* targetCurrency, of amount * rate for a buy and -(amount * rate) for a
\* sell; it does not depend on the display currency and no toggle changes it.
C2_TotalOverAllTransactions ==
  /\ [](/\ totalNetBalanceDZD = SignedTotal
        /\ totalNetBalance["DZD"] = SignedTotal)
  /\ [][/\ totalNetBalanceDZD' = totalNetBalanceDZD
        /\ totalNetBalance'["DZD"] = totalNetBalance["DZD"]]_vars

\* after a toggle, with transactions of both target currencies
C2_Witness ==
  /\ displayCurrency = "USD"
  /\ InTarget("USD") # {}
  /\ InTarget("EUR") # {}
  /\ totalNetBalance["DZD"] = 3
  /\ SumOver(InTarget("USD"), SignedValueAt) # 3

C4_ToggleFlips ==
  /\ displayCurrency = "EUR"
  /\ [](displayCurrency \in Targets)
  /\ [][/\ displayCurrency' # displayCurrency
        /\ displayCurrency' \in Targets
        /\ transactions' = transactions
        /\ screen'.currencySelector.text = displayCurrency'
        /\ \A r \in 1..Len(balances') :
             balances'[r].targetCurrency = displayCurrency'
        /\ \A k \in 1..Len(screen'.cards) :
             ~screen'.cards[k].threw =>
               /\ screen'.cards[k].buys[3] = displayCurrency'
               /\ screen'.cards[k].sells[3] = displayCurrency'
               /\ screen'.cards[k].net[3] = displayCurrency']_vars

\* a toggle has acted and the cards are in USD
C4_Witness ==
  /\ displayCurrency = "USD"
  /\ screen.currencySelector.text = "USD"
  /\ Len(screen.cards) > 0
  /\ ~screen.cards[1].threw
  /\ InTarget("EUR") # {}

\* C5: the converted total is the DZD total divided by the arithmetic mean
\* of the rates of the transactions whose targetCurrency is the display
\* currency; with no such transaction the mean is 0, nothing is divided and
\* the converted value is 0 (as it is whenever the mean is 0).
C5_ConvertedByMeanRate ==
  LET M == InTarget(displayCurrency)
      N == Cardinality(M)
      S == SumOver(M, RateAt)
      mean == averageRates[displayCurrency]
      conv == totalNetBalance[displayCurrency]
  IN /\ mean.den > 0 /\ conv.den > 0
     /\ mean.num * (IF N = 0 THEN 1 ELSE N) = S * mean.den
     /\ N = 0 => mean.num = 0 /\ conv.num = 0
     /\ S = 0 => conv.num = 0
     /\ S > 0 => conv.num * S = SignedTotal * N * conv.den
     /\ screen.totalBalanceValueSecondary.shown <=>
          (transactions # <<>> /\ S > 0)
     /\ screen.totalBalanceValueSecondary.shown =>
          screen.totalBalanceValueSecondary.text
            = formatCurrency(conv, displayCurrency)

\* mean 3/2 of the two rates in the display currency, total 3, converted 2
C5_Witness ==
  /\ Cardinality(InTarget(displayCurrency)) = 2
  /\ SumOver(InTarget(displayCurrency), RateAt) = 3
  /\ SignedTotal = 3
  /\ totalNetBalance[displayCurrency].num
       = 2 * totalNetBalance[displayCurrency].den
  /\ screen.totalBalanceValueSecondary.shown

C5_WitnessNone ==
  /\ transactions # <<>>
  /\ InTarget(displayCurrency) = {}
  /\ SignedTotal # 0
  /\ totalNetBalance[displayCurrency] = Zero
  /\ ~screen.totalBalanceValueSecondary.shown

\* C6: the colour of a net amount is decided by a strict > 0 test: a card
\* whose netTotal is > 0 and a summary total that is > 0 get the success
\* style, every value <= 0, 0 included, gets the error style, and every
\* coloured value gets exactly one of the two.
C6_StrictSign ==
  LET expect(v) == IF v > 0 THEN "positive" ELSE "negative"
  IN /\ \A k \in 1..Len(screen.cards) :
          ~screen.cards[k].threw =>
            screen.cards[k].netStyle = expect(balances[k].netTotal)
     /\ screen.totalBalanceValueDZD.shown =>
          screen.totalBalanceValueDZD.style = expect(totalNetBalanceDZD)
     /\ screen.totalBalanceValue.shown =>
          screen.totalBalanceValue.style = expect(totalNetBalance["DZD"])
     /\ screen.totalBalanceValueSecondary.shown =>
          screen.totalBalanceValueSecondary.style
            = expect(totalNetBalance[displayCurrency].num)

\* a card and a summary whose value is exactly 0 are in the error style
C6_Witness ==
  /\ Len(screen.cards) = 1
  /\ ~screen.cards[1].threw
  /\ balances[1].netTotal = 0
  /\ balances[1].buys = 1
  /\ screen.cards[1].netStyle = "negative"
  /\ totalNetBalanceDZD = 0
  /\ screen.totalBalanceValueDZD.style = "negative"

\* C7: a transaction in the display currency whose currencyCode is absent
\* from the reference table raises no error: its row has an undefined
\* currency reference and the row renders, with name and flag blank.
C7_UnknownCurrencyRenders ==
  \A i \in InTarget(displayCurrency) :
    transactions[i].currencyCode \notin DOMAIN CURRENCIES =>
      \E r \in RowsOf(transactions[i].currencyCode) :
        /\ balances[r].currency = Undefined
        /\ r \in 1..Len(screen.cards)
        /\ ~screen.cards[r].threw
        /\ screen.cards[r].name = <<>>
        /\ screen.cards[r].flag = <<>>

\* the part of C7 the code does: the row is produced, its reference undefined
C7_RowIsProduced ==
  \A i \in InTarget(displayCurrency) :
    transactions[i].currencyCode \notin DOMAIN CURRENCIES =>
      \E r \in RowsOf(transactions[i].currencyCode) :
        balances[r].currency = Undefined

C9_FirstSeenRate ==
  \A r \in 1..Len(balances) :
    LET P == Pair(balances[r].code, displayCurrency)
    IN /\ P # {}
       /\ balances[r].netTotal
            = (balances[r].buys - balances[r].sells)
              * transactions[FirstOf(P)].rate
       /\ AllRatesPositive =>
            ~rateOrZero(transactions, balances[r].code,
                        balances[r].targetCurrency).fallback

\* buy 2 at rate 1 then sell 1 at rate 2: one row, netTotal (2 - 1) * 1
C9_Witness ==
  /\ Len(balances) = 1
  /\ Len(transactions) = 2
  /\ transactions[1].rate = 1
  /\ transactions[2].rate = 2
  /\ balances[1].buys = 2
  /\ balances[1].sells = 1
  /\ balances[1].netTotal = 1

\* C10: a card takes its colour from netTotal and prints buys - sells; when
\* every amount and every rate is > 0 the success style is used iff the
\* printed buys - sells is > 0.
C10_ColourAgreesWithPrintedValue ==
  AllRatesPositive =>
    \A k \in 1..Len(screen.cards) :
      ~screen.cards[k].threw =>
        /\ screen.cards[k].net
             = formatCurrency(balances[k].buys - balances[k].sells,
                              displayCurrency)
        /\ screen.cards[k].netStyle = "positive"
             <=> balances[k].buys - balances[k].sells > 0

\* every rate > 0; a card printing 1 - 2 in the error style, its netTotal
\* being (1 - 2) * 2
C10_Witness ==
  /\ AllRatesPositive
  /\ Len(screen.cards) = 1
  /\ ~screen.cards[1].threw
  /\ balances[1].buys - balances[1].sells = 0 - 1
  /\ balances[1].netTotal = 0 - 2
  /\ screen.cards[1].net = formatCurrency(0 - 1, displayCurrency)
  /\ screen.cards[1].netStyle = "negative"

====
